---- MODULE Spec2Model ----
(***************************************************************************)
(* The interaction handler of the pathfinding visualizer                   *)
(* (src/pathfinder/gui.py, class GUI) together with the Graph it drives.   *)
(*                                                                         *)
(* GUI.__init__, GUI.get_click_pos and GUI.handle_events are translated    *)
(* from gui.py.  pathfinder.graph (Graph, Node) and pathfinder.util.state  *)
(* are not part of src/; their operations are modelled from spec.md        *)
(* sections 3, 4 and 5.  Where the specification leaves a detail open the  *)
(* model says so next to the definition.                                   *)
(***************************************************************************)
EXTENDS Integers, Sequences, FiniteSets, TLC

\* Spec: the grid has GridRows x GridRows cells.
GridRows == 2
\* SearchSpec: the grid has SearchRows x SearchRows cells, of which at most
\* MaxBarriers are BARRIER.
SearchRows == 3
MaxBarriers == 7
\* ClickSpec: ranges of the constructor arguments GUI(rows, width).
MaxCtorRows == 5
MaxCtorWidth == 7

VARIABLES
    gui,      \* GUI attributes set by __init__: rows, columns, width, vertex_width
    grid,     \* graph.grid: state of every cell, indexed row * gui.rows + col
    start,    \* graph.start: a cell or None
    end,      \* graph.end: a cell or None
    paths,    \* graph.paths
    pred,     \* per-cell predecessor link recorded by the search
    pc,       \* "events": in handle_events; "search": inside a_star/dijkstra;
              \* "quit": window closed; "raised": an exception left handle_events
    algo,     \* the search started last: "astar", "dijkstra" or "none"
    open,     \* open set of the running search: records [cell, f, count]
    g,        \* cost from start of the running search (Inf: not discovered)
    count,    \* insertion counter of the open set
    clears,   \* policy of reset_discovered: TRUE iff it also clears paths
    last,     \* the event handle_events processed last (history)
    lastNode  \* the node of that event if it was a pointer event, else None (history)

vars == <<gui, grid, start, end, paths, pred, pc, algo, open, g, count, clears, last, lastNode>>

None == -1
Inf == 1000

EMPTY == "EMPTY"
START == "START"
END == "END"
BARRIER == "BARRIER"
OPEN == "OPEN"
CLOSED == "CLOSED"
PATH == "PATH"
State == {EMPTY, START, END, BARRIER, OPEN, CLOSED, PATH}

-----------------------------------------------------------------------------
\* Python 3 round(a / b) for integers a >= 0, b > 0: ties go to the even integer.
PyRound(a, b) ==
    LET q == a \div b
        r == a % b
    IN  IF 2 * r < b THEN q
        ELSE IF 2 * r > b THEN q + 1
        ELSE IF q % 2 = 0 THEN q ELSE q + 1

\* GUI.__init__(rows, width)
GUIInit(rows, width) ==
    [rows |-> PyRound(rows, 2),
     columns |-> rows,
     width |-> width,
     vertex_width |-> 2 * PyRound(width, rows)]

\* Graph(rows, vertex_width): a square grid of rows x rows cells.
N == gui.rows
Cells == 0 .. (N * N - 1)
RowOf(c) == c \div N
ColOf(c) == c % N
CellAt(row, col) == row * N + col

\* GUI.get_click_pos(pos): <<row, col>> by integer division.
get_click_pos(x, y) == <<y \div gui.vertex_width, x \div gui.vertex_width>>

\* grid[row][col] on Python lists with row, col >= 0: IndexError unless both
\* are below the list's length.
InGrid(row, col) == row < N /\ col < N

-----------------------------------------------------------------------------
\* Node.neighbors(grid): the orthogonally adjacent cells inside the grid that
\* are not BARRIER, in the order up, down, left, right.
Adjacent(c) ==
    LET r == RowOf(c)
        k == ColOf(c)
        cand == << <<r - 1, k>>, <<r + 1, k>>, <<r, k - 1>>, <<r, k + 1>> >>
        ok(p) == p[1] >= 0 /\ p[1] < N /\ p[2] >= 0 /\ p[2] < N
    IN  SelectSeq(cand, ok)

neighbors(gr, c) ==
    LET adj == Adjacent(c)
        cells == [i \in 1 .. Len(adj) |-> CellAt(adj[i][1], adj[i][2])]
        free(d) == gr[d] # BARRIER
    IN  SelectSeq(cells, free)

Abs(x) == IF x < 0 THEN -x ELSE x

\* Manhattan distance between two cells.
h(a, b) == Abs(RowOf(a) - RowOf(b)) + Abs(ColOf(a) - ColOf(b))

-----------------------------------------------------------------------------
\* Graph.set_start(node) / Graph.set_end(node) / Node setters: each
\* unconditionally overwrites the cell's state.
SetState(gr, c, s) == [gr EXCEPT ![c] = s]

\* The predecessor chain walked by mark_path: from the predecessor of `from`
\* back, stopping at the START cell or where no predecessor is recorded.
RECURSIVE ChainFrom(_, _, _, _)
ChainFrom(pr, st, node, fuel) ==
    IF node = None \/ node = st \/ fuel = 0 THEN {}
    ELSE {node} \cup ChainFrom(pr, st, pr[node], fuel - 1)

Chain(pr, st, en) ==
    IF en = None THEN {} ELSE ChainFrom(pr, st, pr[en], N * N)

\* Graph.mark_path(should_mark): every intermediate cell of the chain from END
\* to START becomes PATH (should_mark) or CLOSED (not should_mark).
mark_path(gr, pr, st, en, should_mark) ==
    LET ch == Chain(pr, st, en)
    IN  [c \in DOMAIN gr |->
            IF c \in ch THEN (IF should_mark THEN PATH ELSE CLOSED) ELSE gr[c]]

\* Graph.reset(): every cell EMPTY.
ResetGrid(gr) == [c \in DOMAIN gr |-> EMPTY]

\* Graph.reset_discovered(): OPEN, CLOSED and PATH cells become EMPTY.
reset_discovered(gr) ==
    [c \in DOMAIN gr |-> IF gr[c] \in {OPEN, CLOSED, PATH} THEN EMPTY ELSE gr[c]]

NoPred == [c \in Cells |-> None]
NoCost == [c \in Cells |-> Inf]

-----------------------------------------------------------------------------
(***************************************************************************)
(* Search engine (spec.md 4.3, 4.4).  A run keeps g, the open set and the  *)
(* insertion counter; the predecessor links live on the cells, because     *)
(* mark_path reads them after the run.  A run initialises the bookkeeping  *)
(* of every cell (g unknown, no predecessor) before it inserts START.      *)
(***************************************************************************)
\* Variant of Priority: the heuristic is subtracted, so A* prefers the cells
\* far from END.
Priority_Away(al, en, c, cost) ==
    IF al = "astar" /\ en # None THEN cost - h(c, en) ELSE cost

\* Priority of a cell: f = g + h for A*, f = g for Dijkstra.
Priority(al, en, c, cost) ==
    IF al = "astar" /\ en # None THEN cost + h(c, en) ELSE cost

\* Variant of Top: pops the entry inserted last, whatever its f.
Top_Newest(op) ==
    CHOOSE e \in op : \A o \in op : e.count >= o.count

\* The entry popped next: lowest f, ties broken by insertion order.
Top(op) ==
    CHOOSE e \in op : \A o \in op : e.f < o.f \/ (e.f = o.f /\ e.count <= o.count)

\* Variant of Relax: the neighbour is recorded and inserted whether or not
\* the tentative cost improves.
Relax_Always(s, al, en, cur, n) ==
    LET tentative == s.g[cur] + 1
        f == Priority(al, en, n, tentative)
        inOpen == \E e \in s.open : e.cell = n
    IN  [grid  |-> IF inOpen \/ n = en THEN s.grid ELSE SetState(s.grid, n, OPEN),
         pred  |-> [s.pred EXCEPT ![n] = cur],
         g     |-> [s.g EXCEPT ![n] = tentative],
         open  |-> IF inOpen
                   THEN {IF e.cell = n THEN [e EXCEPT !.f = f] ELSE e : e \in s.open}
                   ELSE s.open \cup {[cell |-> n, f |-> f, count |-> s.count]},
         count |-> IF inOpen THEN s.count ELSE s.count + 1]

\* One neighbour of the expanded cell: if the tentative cost improves, record
\* the predecessor and the costs, and insert the neighbour into the open set
\* (marking it OPEN) unless it is there already.  The END cell keeps its
\* state: the handler recognises it by node.state == State.END afterwards.
Relax(s, al, en, cur, n) ==
    LET tentative == s.g[cur] + 1
        f == Priority(al, en, n, tentative)
        inOpen == \E e \in s.open : e.cell = n
    IN  IF tentative >= s.g[n] THEN s
        ELSE [grid  |-> IF inOpen \/ n = en THEN s.grid ELSE SetState(s.grid, n, OPEN),
              pred  |-> [s.pred EXCEPT ![n] = cur],
              g     |-> [s.g EXCEPT ![n] = tentative],
              open  |-> IF inOpen
                        THEN {IF e.cell = n THEN [e EXCEPT !.f = f] ELSE e : e \in s.open}
                        ELSE s.open \cup {[cell |-> n, f |-> f, count |-> s.count]},
              count |-> IF inOpen THEN s.count ELSE s.count + 1]

RECURSIVE RelaxAll(_, _, _, _, _, _)
RelaxAll(s, al, en, cur, ns, i) ==
    IF i > Len(ns) THEN s
    ELSE RelaxAll(Relax(s, al, en, cur, ns[i]), al, en, cur, ns, i + 1)

\* Variant of Expand: the expanded cell is not marked CLOSED.
Expand_NoClose(s, al, st, en, cur) ==
    RelaxAll(s, al, en, cur, neighbors(s.grid, cur), 1)

\* One iteration of the search loop on the popped cell cur (not END): relax
\* its neighbours, then mark it CLOSED unless it is the START cell.
Expand(s, al, st, en, cur) ==
    LET t == RelaxAll(s, al, en, cur, neighbors(s.grid, cur), 1)
    IN  [t EXCEPT !.grid = IF cur = st THEN t.grid ELSE SetState(t.grid, cur, CLOSED)]

-----------------------------------------------------------------------------
TypeOK ==
    /\ grid \in [Cells -> State]
    /\ start \in Cells \cup {None}
    /\ end \in Cells \cup {None}
    /\ paths \in BOOLEAN
    /\ pred \in [Cells -> Cells \cup {None}]
    /\ pc \in {"events", "search", "quit", "raised"}
    /\ algo \in {"astar", "dijkstra", "none"}
    /\ clears \in BOOLEAN

\* The state after GUI(rows, width): Graph.__init__ leaves every cell EMPTY,
\* start and end unset and paths false.
InitWith(rows, width) ==
    /\ gui = GUIInit(rows, width)
    /\ grid = [c \in 0 .. (PyRound(rows, 2) * PyRound(rows, 2) - 1) |-> EMPTY]
    /\ start = None
    /\ end = None
    /\ paths = FALSE
    /\ pred = [c \in 0 .. (PyRound(rows, 2) * PyRound(rows, 2) - 1) |-> None]
    /\ pc = "events"
    /\ algo = "none"
    /\ open = {}
    /\ g = [c \in 0 .. (PyRound(rows, 2) * PyRound(rows, 2) - 1) |-> Inf]
    /\ count = 0
    /\ clears \in BOOLEAN
    /\ last = "none"
    /\ lastNode = None

\* GUI(2 * GridRows, 2 * GridRows): GridRows rows of cells 2 pixels wide.
Init == InitWith(2 * GridRows, 2 * GridRows)

Idle == UNCHANGED <<algo, open, g, count>>

Barriers == {c \in Cells : grid[c] = BARRIER}

\* pygame.mouse.get_pressed(): the if/elif chain of lines 97, 110, 123 takes
\* the branch of the first button that is held, 0 (left), 1 (middle), 2 (right).
Buttons == 0 .. 2

\* Lines 93-94: a QUIT event makes handle_events return False.
Quit ==
    /\ pc = "events"
    /\ pc' = "quit"
    /\ last' = "QUIT"
    /\ lastNode' = None
    /\ UNCHANGED <<gui, grid, start, end, paths, pred, clears>>
    /\ Idle

\* Lines 99-101, 112-114, 125-127: the clicked node, or the exception raised
\* by the division or by the list index.
Raises(x, y) ==
    \/ gui.vertex_width = 0
    \/ ~InGrid(get_click_pos(x, y)[1], get_click_pos(x, y)[2])

Node(x, y) == CellAt(get_click_pos(x, y)[1], get_click_pos(x, y)[2])

\* Variant of LeftClick: a barrier may be placed on the END cell.
LeftClick_OverEnd(node) ==
    IF start = None /\ node # end
    THEN /\ start' = node
         /\ grid' = SetState(grid, node, START)
         /\ UNCHANGED <<end, paths>>
    ELSE IF node # start /\ ~paths
    THEN /\ grid' = SetState(grid, node, BARRIER)
         /\ UNCHANGED <<start, end, paths>>
    ELSE UNCHANGED <<grid, start, end, paths>>

\* Variant of LeftClick: a barrier may be placed on the START cell.
LeftClick_OverStart(node) ==
    IF start = None /\ node # end
    THEN /\ start' = node
         /\ grid' = SetState(grid, node, START)
         /\ UNCHANGED <<end, paths>>
    ELSE IF node # end /\ ~paths
    THEN /\ grid' = SetState(grid, node, BARRIER)
         /\ UNCHANGED <<start, end, paths>>
    ELSE UNCHANGED <<grid, start, end, paths>>

\* Variant of LeftClick: START may be placed on the END cell.
LeftClick_OntoEnd(node) ==
    IF start = None
    THEN /\ start' = node
         /\ grid' = SetState(grid, node, START)
         /\ UNCHANGED <<end, paths>>
    ELSE IF node # end /\ node # start /\ ~paths
    THEN /\ grid' = SetState(grid, node, BARRIER)
         /\ UNCHANGED <<start, end, paths>>
    ELSE UNCHANGED <<grid, start, end, paths>>

\* Variant of LeftClick: barriers are placed whether or not a path exists.
LeftClick_IgnoresPaths(node) ==
    IF start = None /\ node # end
    THEN /\ start' = node
         /\ grid' = SetState(grid, node, START)
         /\ UNCHANGED <<end, paths>>
    ELSE IF node # end /\ node # start
    THEN /\ grid' = SetState(grid, node, BARRIER)
         /\ UNCHANGED <<start, end, paths>>
    ELSE UNCHANGED <<grid, start, end, paths>>

\* Lines 103-108: left button.
LeftClick(node) ==
    IF start = None /\ node # end
    THEN /\ start' = node
         /\ grid' = SetState(grid, node, START)
         /\ UNCHANGED <<end, paths>>
    ELSE IF node # end /\ node # start /\ ~paths
    THEN /\ grid' = SetState(grid, node, BARRIER)
         /\ UNCHANGED <<start, end, paths>>
    ELSE UNCHANGED <<grid, start, end, paths>>

\* Variant of MiddleClick: END is placed although END is set already.
MiddleClick_SecondEnd(node) ==
    IF node # start /\ grid[node] # BARRIER
    THEN /\ end' = node
         /\ grid' = IF paths
                    THEN mark_path(SetState(grid, node, END), pred, start, node, FALSE)
                    ELSE SetState(grid, node, END)
         /\ UNCHANGED <<start, paths>>
    ELSE UNCHANGED <<grid, start, end, paths>>

\* Lines 116-120: middle button.
MiddleClick(node) ==
    IF end = None /\ node # start /\ grid[node] # BARRIER
    THEN /\ end' = node
         /\ grid' = IF paths
                    THEN mark_path(SetState(grid, node, END), pred, start, node, FALSE)
                    ELSE SetState(grid, node, END)
         /\ UNCHANGED <<start, paths>>
    ELSE UNCHANGED <<grid, start, end, paths>>

\* Variant of RightClick: the END cell is cleared but the end reference of
\* line 142 is kept.
RightClick_KeepsEnd(node) ==
    IF \/ grid[node] = END
       \/ (~paths /\ grid[node] = BARRIER)
       \/ (~paths /\ grid[node] = START)
    THEN LET cleared == SetState(grid, node, EMPTY)
         IN  IF node = start
             THEN /\ start' = None
                  /\ grid' = cleared
                  /\ UNCHANGED <<end, paths>>
             ELSE IF node = end
             THEN /\ grid' = IF paths
                             THEN SetState(mark_path(cleared, pred, start, end, TRUE), node, CLOSED)
                             ELSE cleared
                  /\ UNCHANGED <<start, end, paths>>
             ELSE /\ grid' = cleared
                  /\ UNCHANGED <<start, end, paths>>
    ELSE UNCHANGED <<grid, start, end, paths>>

\* Lines 129-142: right button.
RightClick(node) ==
    IF \/ grid[node] = END
       \/ (~paths /\ grid[node] = BARRIER)
       \/ (~paths /\ grid[node] = START)
    THEN LET cleared == SetState(grid, node, EMPTY)
         IN  IF node = start
             THEN /\ start' = None
                  /\ grid' = cleared
                  /\ UNCHANGED <<end, paths>>
             ELSE IF node = end
             THEN /\ grid' = IF paths
                             THEN SetState(mark_path(cleared, pred, start, end, TRUE), node, CLOSED)
                             ELSE cleared
                  /\ end' = None
                  /\ UNCHANGED <<start, paths>>
             ELSE /\ grid' = cleared
                  /\ UNCHANGED <<start, end, paths>>
    ELSE UNCHANGED <<grid, start, end, paths>>

\* Lines 96-142: any event that is not QUIT, processed while a button is held
\* at pixel position (x, y).
Pointer(b, x, y) ==
    /\ pc = "events"
    /\ last' = <<"left", "middle", "right">>[b + 1]
    /\ IF Raises(x, y)
       THEN /\ pc' = "raised"
            /\ lastNode' = None
            /\ UNCHANGED <<grid, start, end, paths>>
       ELSE /\ pc' = pc
            /\ lastNode' = Node(x, y)
            /\ CASE b = 0 -> LeftClick(Node(x, y))
                 [] b = 1 -> MiddleClick(Node(x, y))
                 [] OTHER -> RightClick(Node(x, y))
    /\ UNCHANGED <<gui, pred, clears>>
    /\ Idle

PointerEvent == \E b \in Buttons, x \in 0 .. (gui.width - 1), y \in 0 .. (gui.width - 1) : Pointer(b, x, y)

-----------------------------------------------------------------------------
\* Lines 145-165 are reached by a KEYDOWN event only while no button is held.

\* Variant of KeyEscape: ESC only clears the discovered cells.
KeyEscape_Partial ==
    /\ pc = "events"
    /\ grid' = reset_discovered(grid)
    /\ paths' = FALSE
    /\ last' = "ESCAPE"
    /\ lastNode' = None
    /\ UNCHANGED <<gui, start, end, pred, pc, clears>>
    /\ Idle

\* Lines 147-148: ESC, Graph.reset().
KeyEscape ==
    /\ pc = "events"
    /\ grid' = ResetGrid(grid)
    /\ start' = None
    /\ end' = None
    /\ paths' = FALSE
    /\ last' = "ESCAPE"
    /\ lastNode' = None
    /\ UNCHANGED <<gui, pred, pc, clears>>
    /\ Idle

\* Variant of KeyC: c clears every cell.
KeyC_ClearsAll ==
    /\ pc = "events"
    /\ grid' = ResetGrid(grid)
    /\ paths' = IF clears THEN FALSE ELSE paths
    /\ last' = "c"
    /\ lastNode' = None
    /\ UNCHANGED <<gui, start, end, pred, pc, clears>>
    /\ Idle

\* Lines 150-151: c, Graph.reset_discovered().  Whether it also clears paths
\* is the policy spec.md leaves to the implementation (clears).
KeyC ==
    /\ pc = "events"
    /\ grid' = reset_discovered(grid)
    /\ paths' = IF clears THEN FALSE ELSE paths
    /\ last' = "c"
    /\ lastNode' = None
    /\ UNCHANGED <<gui, start, end, pred, pc, clears>>
    /\ Idle

\* Graph.a_star / Graph.dijkstra up to the first iteration of the loop.
BeginSearch(al) ==
    /\ algo' = al
    /\ pred' = NoPred
    /\ g' = [NoCost EXCEPT ![start] = 0]
    /\ open' = {[cell |-> start, f |-> Priority(al, end, start, 0), count |-> 0]}
    /\ count' = 1
    /\ pc' = "search"
    /\ UNCHANGED <<gui, grid, start, end, paths, clears>>

\* Variant of KeyA: a starts A* as soon as START is set.
KeyA_WithoutEnd ==
    /\ pc = "events"
    /\ start # None
    /\ last' = "a"
    /\ lastNode' = None
    /\ BeginSearch("astar")

\* Lines 153-154: a, with START and END set.
KeyA ==
    /\ pc = "events"
    /\ start # None /\ end # None
    /\ last' = "a"
    /\ lastNode' = None
    /\ BeginSearch("astar")

\* Lines 158-159: d, with START set.
KeyD ==
    /\ pc = "events"
    /\ start # None
    /\ last' = "d"
    /\ lastNode' = None
    /\ BeginSearch("dijkstra")

\* Lines 153, 158, 163: the keys a and d whose condition fails fall through
\* every remaining branch; any other key matches none.
KeyIgnored(k) ==
    /\ pc = "events"
    /\ \/ k = "a" /\ (start = None \/ end = None)
       \/ k = "d" /\ start = None
       \/ k = "other"
    /\ last' = k
    /\ lastNode' = None
    /\ UNCHANGED <<gui, grid, start, end, paths, pred, pc, clears>>
    /\ Idle

\* Graph.generate_maze on a reset grid: the cells of B become BARRIER.
generate_maze(gr, B) == [c \in DOMAIN gr |-> IF c \in B THEN BARRIER ELSE gr[c]]

\* Variant of KeyM: the generator runs on the grid as it is, without the
\* reset of line 164.
KeyM_NoReset ==
    /\ pc = "events"
    /\ \E B \in SUBSET Cells :
          grid' = generate_maze(grid, B)
    /\ last' = "m"
    /\ lastNode' = None
    /\ UNCHANGED <<gui, start, end, paths, pred, pc, clears>>
    /\ Idle

\* Lines 163-165: m, Graph.reset() and then Graph.generate_maze: a randomly
\* chosen set of cells becomes BARRIER.
KeyM ==
    /\ pc = "events"
    /\ \E B \in SUBSET Cells :
          grid' = generate_maze(ResetGrid(grid), B)
    /\ start' = None
    /\ end' = None
    /\ paths' = FALSE
    /\ last' = "m"
    /\ lastNode' = None
    /\ UNCHANGED <<gui, pred, pc, clears>>
    /\ Idle

-----------------------------------------------------------------------------
\* The search loop, one iteration per step; after each iteration the search
\* renders and polls for a quit event.
Run == [grid |-> grid, pred |-> pred, g |-> g, open |-> open, count |-> count]

\* Variant of AfterSearch: the handler calls mark_path(True).
AfterSearch_Marks(gr) == IF end # None THEN mark_path(gr, pred', start, end, TRUE) ELSE gr

\* Lines 155-156, 160-161: back in handle_events after the search returned.
AfterSearch(gr) == IF end # None THEN mark_path(gr, pred', start, end, FALSE) ELSE gr

EndSearch ==
    /\ algo' = algo
    /\ open' = {}
    /\ g' = NoCost
    /\ count' = 0

\* Pop a cell that is not END and expand it.
SearchStep ==
    /\ pc = "search"
    /\ open # {}
    /\ Top(open).cell # end
    /\ LET cur == Top(open).cell
           t == Expand([Run EXCEPT !.open = open \ {Top(open)}], algo, start, end, cur)
       IN  /\ grid' = t.grid
           /\ pred' = t.pred
           /\ g' = t.g
           /\ open' = t.open
           /\ count' = t.count
    /\ last' = "step"
    /\ lastNode' = None
    /\ UNCHANGED <<gui, start, end, paths, pc, algo, clears>>

\* END is popped: the path is computed.
SearchFound ==
    /\ pc = "search"
    /\ open # {}
    /\ Top(open).cell = end
    /\ paths' = TRUE
    /\ pred' = pred
    /\ grid' = AfterSearch(grid)
    /\ pc' = "events"
    /\ last' = "found"
    /\ lastNode' = None
    /\ EndSearch
    /\ UNCHANGED <<gui, start, end, clears>>

\* The open set is empty: no path.
SearchFailed ==
    /\ pc = "search"
    /\ open = {}
    /\ pred' = pred
    /\ grid' = AfterSearch(grid)
    /\ pc' = "events"
    /\ last' = "failed"
    /\ lastNode' = None
    /\ EndSearch
    /\ UNCHANGED <<gui, start, end, paths, clears>>

\* The per-step callback observes a quit event: the search unwinds, the
\* handler finishes the key command and the program ends.
SearchQuit ==
    /\ pc = "search"
    /\ \A e \in open : e.cell # start
    /\ pred' = pred
    /\ grid' = AfterSearch(grid)
    /\ pc' = "quit"
    /\ last' = "cancel"
    /\ lastNode' = None
    /\ EndSearch
    /\ UNCHANGED <<gui, start, end, paths, clears>>

KeyEvent ==
    \/ KeyEscape
    \/ KeyC
    \/ KeyA
    \/ KeyD
    \/ KeyM
    \/ \E k \in {"a", "d", "other"} : KeyIgnored(k)

Search ==
    \/ SearchStep
    \/ SearchFound
    \/ SearchFailed
    \/ SearchQuit

Next ==
    \/ Quit
    \/ PointerEvent
    \/ KeyEvent
    \/ Search

Spec == Init /\ [][Next]_vars

\* Searches on a grid on which START, optionally END, and at most MaxBarriers
\* barriers have been placed by pointer events.
SearchInit ==
    \E s \in 0 .. (SearchRows * SearchRows - 1),
          e \in (0 .. (SearchRows * SearchRows - 1)) \cup {None},
          B \in SUBSET (0 .. (SearchRows * SearchRows - 1)) :
          /\ Cardinality(B) <= MaxBarriers
          /\ s # e /\ s \notin B /\ e \notin B
          /\ gui = GUIInit(2 * SearchRows, 2 * SearchRows)
          /\ grid = [c \in 0 .. (SearchRows * SearchRows - 1) |->
                        IF c = s THEN START ELSE IF c = e THEN END
                        ELSE IF c \in B THEN BARRIER ELSE EMPTY]
          /\ start = s
          /\ end = e
          /\ paths = FALSE
          /\ pred = [c \in 0 .. (SearchRows * SearchRows - 1) |-> None]
          /\ pc = "events"
          /\ algo = "none"
          /\ open = {}
          /\ g = [c \in 0 .. (SearchRows * SearchRows - 1) |-> Inf]
          /\ count = 0
          /\ clears \in BOOLEAN
          /\ last = IF e = None THEN "left" ELSE "middle"
          /\ lastNode = IF e = None THEN s ELSE e

SearchNext ==
    \/ KeyA
    \/ KeyD
    \/ Search

SearchSpec == SearchInit /\ [][SearchNext]_vars

\* Pointer events on GUIs constructed with every (rows, width) of the ranges:
\* at least two rows (a grid of at least one cell) in a window at least rows
\* pixels wide (cells at least two pixels wide).
ClickInit == \E rows \in 2 .. MaxCtorRows, width \in 2 .. MaxCtorWidth : width >= rows /\ InitWith(rows, width)

ClickNext == PointerEvent

ClickSpec == ClickInit /\ [][ClickNext]_vars

-----------------------------------------------------------------------------
PointerKinds == {"left", "middle", "right"}
CellsIn(st) == {c \in Cells : grid[c] = st}

\* C1: at most one cell has state START, at most one has state END, and the
\* start and end references never refer to the same cell.
C1_OneStartOneEnd ==
    /\ Cardinality(CellsIn(START)) <= 1
    /\ Cardinality(CellsIn(END)) <= 1
    /\ (start # None => start # end)

\* START and END are both placed and a search has found a path between them.
C1_Witness ==
    /\ start # None /\ end # None
    /\ grid[start] = START /\ grid[end] = END
    /\ paths
    /\ last = "found"

\* C2: while paths is true no pointer event changes the set of BARRIER cells,
\* the START cell or the start reference, and any step at all that changes
\* one of them while paths is true is a full reset (ESC, or m which resets
\* first) and leaves paths false.
C2_PathsFreezesBarriersAndStart ==
    [][paths =>
        /\ (last' \in PointerKinds =>
               /\ {c \in Cells : grid'[c] = BARRIER} = Barriers
               /\ {c \in Cells : grid'[c] = START} = CellsIn(START)
               /\ start' = start)
        /\ ({c \in Cells : grid'[c] = BARRIER} # Barriers \/ start' # start =>
               last' \in {"ESCAPE", "m"} /\ ~paths')]_vars

\* A pointer event was processed while a path exists on a grid with a barrier.
C2_Witness ==
    /\ paths
    /\ last = "left"
    /\ Barriers # {}
    /\ start # None

Grid == <<grid, start, end, paths>>

C4_SearchKeyIgnored ==
    [][(last' = "a" /\ (start = None \/ end = None)) \/ (last' = "d" /\ start = None) =>
        /\ pc' = "events"
        /\ UNCHANGED <<grid, start, end, paths, pred, algo, open, g, count>>]_vars

\* The a key was ignored on a grid that has START and a barrier but no END.
C4_Witness ==
    /\ last = "a"
    /\ pc = "events"
    /\ start # None /\ end = None
    /\ Barriers # {}

\* C5: a pointer event at a position inside the window never makes
\* handle_events raise (neither the division nor the grid index fails).
C5_ClickNeverRaises == pc # "raised"

\* C6: after the full-reset key command every cell is EMPTY, start and end
\* are unset and paths is false.
C6_FullReset ==
    last = "ESCAPE" =>
        /\ \A c \in Cells : grid[c] = EMPTY
        /\ start = None /\ end = None
        /\ ~paths

\* ESC was processed after a search had run on the grid (its predecessor
\* links are still recorded).
C6_Witness ==
    /\ last = "ESCAPE"
    /\ \E c \in Cells : pred[c] # None

\* C7: the partial-reset key command turns every OPEN, CLOSED and PATH cell
\* into EMPTY and leaves every other cell's state and the start and end
\* references as they were.
C7_PartialReset ==
    [][last' = "c" =>
        /\ \A c \in Cells :
              grid'[c] = IF grid[c] \in {OPEN, CLOSED, PATH} THEN EMPTY ELSE grid[c]
        /\ start' = start /\ end' = end]_vars

\* c was processed after a search, on a grid that keeps START, END and a
\* barrier and has no discovered cell left.
C7_Witness ==
    /\ last = "c"
    /\ start # None /\ end # None
    /\ grid[start] = START /\ grid[end] = END
    /\ Barriers # {}
    /\ \E c \in Cells : pred[c] # None
    /\ \A c \in Cells : grid[c] \notin {OPEN, CLOSED, PATH}

-----------------------------------------------------------------------------
\* Breadth-first distance from the cells of frontier to target over the cells
\* that are not BARRIER, counting 4-neighbour steps (Inf: unreachable).
RECURSIVE Distance(_, _, _, _)
Distance(frontier, seen, target, d) ==
    IF target \in frontier THEN d
    ELSE IF frontier = {} THEN Inf
    ELSE LET next == {n \in Cells \ seen :
                        grid[n] # BARRIER /\ \E c \in frontier : h(c, n) = 1}
         IN  Distance(next, seen \cup next, target, d + 1)

ShortestDistance == Distance({start}, {start}, end, 0)

\* The cell at which the walk of mark_path stops.
RECURSIVE ChainEnd(_, _, _, _)
ChainEnd(pr, st, node, fuel) ==
    IF node = None \/ node = st \/ fuel = 0 THEN node
    ELSE ChainEnd(pr, st, pr[node], fuel - 1)

\* The predecessor links from END lead to START through adjacent cells that
\* are not BARRIER.
PathReconstructed ==
    /\ ChainEnd(pred, start, pred[end], N * N) = start
    /\ \A c \in Chain(pred, start, end) \cup {end} :
          h(c, pred[c]) = 1 /\ grid[c] # BARRIER

\* Steps of the reconstructed path.
PathLength == Cardinality(Chain(pred, start, end)) + 1

\* No barrier lies in the rectangle spanned by START and END.
NoBarrierBetween ==
    \A b \in Barriers :
        \/ h(start, b) + h(b, end) # h(start, end)

\* C8: a path found by A* or by Dijkstra leads from END back to START and its
\* length is the shortest 4-neighbour distance between them (so both
\* algorithms find paths of one length), which is the Manhattan distance when
\* no barrier lies between START and END.
C8_PathIsShortest ==
    last = "found" =>
        /\ PathReconstructed
        /\ PathLength = ShortestDistance
        /\ (NoBarrierBetween => PathLength = h(start, end))

\* A* has found a path that barriers force to be longer than the Manhattan
\* distance.
C8_Witness ==
    /\ last = "found"
    /\ algo = "astar"
    /\ PathLength > h(start, end)
    /\ PathLength = ShortestDistance

\* C9: when a search ends because the open set is empty, then after the key
\* command no cell is PATH and every cell the run discovered is CLOSED.
C9_FailureLeavesClosed ==
    last = "failed" =>
        /\ CellsIn(PATH) = {}
        /\ \A c \in Cells : pred[c] # None => grid[c] = CLOSED

\* A* has failed with END set after exploring cells.
C9_Witness ==
    /\ last = "failed"
    /\ algo = "astar"
    /\ end # None
    /\ Cardinality(CellsIn(CLOSED)) >= 2

\* C10: a quit observed by the per-step callback ends the search; the key
\* command leaves cell states, start, end and paths as the last step left
\* them, and nothing is expanded afterwards.
C10_QuitKeepsPartialState ==
    [][/\ (pc = "search" /\ pc' = "quit" => UNCHANGED Grid)
       /\ (pc = "quit" => UNCHANGED vars)]_vars

\* A search with END set was cancelled after END had been discovered.
C10_Witness ==
    /\ last = "cancel"
    /\ pc = "quit"
    /\ end # None
    /\ pred[end] # None
    /\ CellsIn(OPEN) # {}

-----------------------------------------------------------------------------
(***************************************************************************)
(* The program with its searches stepped fairly and no quit event.  The    *)
(* search is one sequential loop on the only thread: an iteration that can *)
(* run does run, which is weak fairness of the loop's steps.               *)
(***************************************************************************)
FairNext ==
    \/ PointerEvent
    \/ KeyEvent
    \/ SearchStep
    \/ SearchFound
    \/ SearchFailed

FairSpec ==
    /\ Init
    /\ [][FairNext]_vars
    /\ WF_vars(SearchStep \/ SearchFound \/ SearchFailed)

\* The cells the running search has popped and expanded: discovered, and no
\* longer in the open set.
Expanded == {c \in Cells : g[c] < Inf /\ \A e \in open : e.cell # c}

\* C11: under fair stepping and with no quit event a started A* or Dijkstra
\* run eventually returns to the event loop, either because END was popped
\* or because the open set was empty; every step of the run adds a cell to
\* the expanded ones and takes none back, so no cell is expanded twice.
C11_SearchTerminates ==
    /\ (pc = "search") ~> (pc = "events" /\ last \in {"found", "failed"})
    /\ [][pc = "search" /\ pc' = "search"
            => Expanded \subseteq Expanded' /\ Expanded' # Expanded]_vars
    /\ [][pc = "search" /\ pc' = "events"
            => \/ last' = "found" /\ open # {} /\ Top(open).cell = end
               \/ last' = "failed" /\ open = {}]_vars

\* A Dijkstra run without END has expanded every cell of the grid and ended
\* on the empty open set.
C11_Witness ==
    /\ last = "failed"
    /\ algo = "dijkstra"
    /\ end = None
    /\ Barriers = {}
    /\ CellsIn(CLOSED) = Cells \ {start}

-----------------------------------------------------------------------------
\* The run BeginSearch starts on the current grid, as a value.
FirstRun(al) ==
    [grid  |-> grid,
     pred  |-> NoPred,
     g     |-> [NoCost EXCEPT ![start] = 0],
     open  |-> {[cell |-> start, f |-> Priority(al, end, start, 0), count |-> 0]},
     count |-> 1]

\* The iterations of SearchStep from run s until END is popped or the open
\* set is empty; closed counts the cells expanded and marked CLOSED so far.
RECURSIVE RunSearch(_, _, _, _, _)
RunSearch(s, al, st, en, closed) ==
    IF s.open = {} THEN [found |-> FALSE, closed |-> closed]
    ELSE LET top == Top(s.open)
         IN  IF top.cell = en THEN [found |-> TRUE, closed |-> closed]
             ELSE RunSearch(Expand([s EXCEPT !.open = s.open \ {top}], al, st, en, top.cell),
                            al, st, en, IF top.cell = st THEN closed ELSE closed + 1)

Expansions(al) == RunSearch(FirstRun(al), al, start, end, 0)

\* C12: on every grid on which START and END are set and a path exists, A*
\* marks at most as many cells CLOSED before it pops END as Dijkstra does.
C12_AStarExpandsNoMore ==
    (pc = "events" /\ start # None /\ end # None /\ ShortestDistance < Inf)
        => /\ Expansions("astar").found
           /\ Expansions("dijkstra").found
           /\ Expansions("astar").closed <= Expansions("dijkstra").closed

\* A* has just found a path on a clean grid, its CLOSED cells are the ones
\* the run counted, and Dijkstra closes more cells on the same input.
C12_Witness ==
    /\ last = "found"
    /\ algo = "astar"
    /\ CellsIn(OPEN) \cup CellsIn(CLOSED) # {}
    /\ Cardinality(CellsIn(CLOSED)) = Expansions("astar").closed
    /\ Expansions("astar").closed < Expansions("dijkstra").closed

-----------------------------------------------------------------------------
\* C13: whatever the grid was when the maze key command arrived, the grid
\* generate_maze works on is the fully reset one: the command leaves start
\* and end unset and paths false, and every cell EMPTY except the barriers
\* the generator placed.
C13_MazeStartsReset ==
    [][last' = "m"
         => /\ start' = None
            /\ end' = None
            /\ ~paths'
            /\ grid' = generate_maze(ResetGrid(grid), Barriers')]_vars

\* The maze command has run after a search had left predecessor links, and
\* the generator placed barriers.
C13_Witness ==
    /\ last = "m"
    /\ pred # NoPred
    /\ Barriers # {}
    /\ Barriers # Cells

-----------------------------------------------------------------------------
\* C14: once a search started by the A* or Dijkstra key command has popped
\* END and the key command has finished, every intermediate cell of the
\* predecessor chain from END back to START is PATH, and the START and END
\* cells keep their states.
C14_PathDrawn ==
    (last = "found")
        => /\ \A c \in Chain(pred, start, end) : grid[c] = PATH
           /\ grid[start] = START
           /\ grid[end] = END

\* C15: a tertiary click that removes END while paths is true leaves no cell
\* PATH and the former END cell CLOSED; while paths is false it leaves the
\* former END cell EMPTY; either way the end reference is unset.
C15_EndRemovalErasesPath ==
    [][(last' = "right" /\ lastNode' = end /\ end # None)
         => /\ end' = None
            /\ IF paths
               THEN {c \in Cells : grid'[c] = PATH} = {} /\ grid'[end] = CLOSED
               ELSE grid'[end] = EMPTY]_vars

-----------------------------------------------------------------------------
\* C16 as stated: a primary click turns a cell into BARRIER only when START
\* is set, no path exists and the cell was EMPTY before the click.
C16_BarrierOnlyOnEmpty ==
    [][\A c \in Cells :
         (last' = "left" /\ grid[c] # BARRIER /\ grid'[c] = BARRIER)
             => start # None /\ ~paths /\ grid[c] = EMPTY]_vars

\* C16, amended: a primary click turns a cell into BARRIER only when START is
\* set, no path exists and the clicked cell is neither the START nor the END
\* cell; the cell was EMPTY, OPEN or CLOSED before the click, never START,
\* END or PATH.
C16_BarrierOffStartAndEnd ==
    [][\A c \in Cells :
         (last' = "left" /\ grid[c] # BARRIER /\ grid'[c] = BARRIER)
             => /\ start # None
                /\ ~paths
                /\ c = lastNode'
                /\ c # start
                /\ c # end
                /\ grid[c] \in {EMPTY, OPEN, CLOSED}]_vars

\* A primary click has placed a barrier on a cell of the latest search's
\* tree while a cell discovered from it is still OPEN or CLOSED.
C16_Witness ==
    /\ last = "left"
    /\ grid[lastNode] = BARRIER
    /\ pred[lastNode] # None
    /\ \E c \in Cells : pred[c] = lastNode /\ grid[c] \in {OPEN, CLOSED}

-----------------------------------------------------------------------------
(***************************************************************************)
(* GUI.loop (lines 168-174): while handle_events() returns True the loop   *)
(* calls self.draw() and polls again; when it returns False the loop ends. *)
(***************************************************************************)
\* Lines 172-173: handle_events has returned True and the loop calls
\* self.draw() with no argument, while line 66 declares draw(self, fps) with
\* no default: the call raises TypeError before the body of draw runs.
Draw ==
    /\ pc = "events"
    /\ pc' = "raised"
    /\ last' = "draw"
    /\ lastNode' = None
    /\ UNCHANGED <<gui, grid, start, end, paths, pred, clears>>
    /\ Idle

LoopNext ==
    \/ Next
    \/ Draw

LoopSpec == Init /\ [][LoopNext]_vars

\* C17: every iteration of the main loop in which handle_events returns True
\* renders the grid successfully and polls again, and the loop runs until a
\* QUIT event, after which no event is processed.
C17_LoopRendersUntilQuit ==
    /\ [][last' = "draw" => pc' = "events"]_vars
    /\ [][last' = "QUIT" => pc' = "quit"]_vars
    /\ [][pc # "quit"]_vars

-----------------------------------------------------------------------------
-----------------------------------------------------------------------------
\* The predecessor links pr lead from the cell en back to st through cells
\* that are not BARRIER on the grid gr.
ChainReaches(pr, st, en, gr) ==
    /\ st # None
    /\ en # None
    /\ ChainEnd(pr, st, pr[en], N * N) = st
    /\ \A c \in Chain(pr, st, en) : gr[c] # BARRIER

\* C19: whenever handle_events calls mark_path (line 156 or 161 after a
\* search with END set, line 120 after placing END while paths is true, line
\* 138 when removing END while paths is true), the predecessor links of the
\* current END cell lead back to START through non-BARRIER cells.
C19_MarkPathHasChain ==
    [][/\ (pc = "search" /\ pc' # "search" /\ end # None)
            => ChainReaches(pred, start, end, grid)
       /\ (last' = "middle" /\ end = None /\ end' # None /\ paths)
            => ChainReaches(pred, start, end', grid')
       /\ (last' = "right" /\ end # None /\ end' = None /\ paths)
            => ChainReaches(pred, start, end, grid)]_vars

-----------------------------------------------------------------------------
\* C20: pointer handling is idempotent.  last and lastNode hold the button
\* and the cell of the event processed before; an event with the same button
\* held over the same cell changes neither the cell states nor start, end or
\* paths.  In particular the second event of a click that set START does not
\* place a barrier on that cell.
C20_PointerIdempotent ==
    [][(last \in PointerKinds /\ lastNode # None /\ last' = last /\ lastNode' = lastNode)
         => UNCHANGED Grid]_vars

\* A primary click has just set START and no path forbids barriers: the
\* state in which the click's next event finds the button over the same cell.
C20_Witness ==
    /\ last = "left"
    /\ lastNode = start
    /\ grid[lastNode] = START
    /\ ~paths
    /\ Barriers = {}
    /\ end # None

====
